---- MODULE Spec2Model ----
(***************************************************************************)
(* Model of scheme-fmt (src/scheme-fmt.py): the lexer/parser               *)
(* (ParserFormatter.take*, parse_expr, parse), the renderer (_fmt_expr,    *)
(* fmt_expr, fmt) and the per-file body of the driver loop.                *)
(*                                                                         *)
(* Text is a sequence of one-character strings; offsets are 0-based as in  *)
(* Python, so code[a:b] is SubSeq(code, a + 1, b).                         *)
(*                                                                         *)
(* parse_expr is recursive in the source.  Here its recursion stack is the *)
(* variable stack (one frame per list whose `while True` loop is running)  *)
(* and every action below is one parse_expr call seen from the point where *)
(* it has taken its token.  fmt() is a generator that pulls forms from     *)
(* parse() lazily, but nothing it yields is observable before "".join has  *)
(* consumed all of it (line 202), so the model parses the unit first and   *)
(* renders it afterwards.                                                  *)
(***************************************************************************)
EXTENDS Integers, Sequences, FiniteSets, TLC

VARIABLES
  file,        \* content of the file on disk
  code,        \* self.code, the text read from the file
  indent_seq,  \* options.indent_seq
  pos,         \* self.pos, the cursor
  stack,       \* the lists whose loop in parse_expr is running, outermost first
  forms,       \* the top-level forms parse() has yielded
  spin,        \* empty atoms appended at end of input
  pc,          \* "parse", "fmt", "done" or "RuntimeError"
  result,      \* the text the driver computed
  formatted,   \* the file was left by an earlier invocation
  prev_shape   \* shape of the forms of the earlier invocation

vars == <<file, code, indent_seq, pos, stack, forms, spin, pc, result,
          formatted, prev_shape>>

(* ------------------------------ bounds --------------------------------- *)
MaxTop == 3     \* length of a source text
MaxBody == 4    \* length of the text inside a source that is one list
MaxSpin == 2    \* iterations followed of a list loop that cannot end

\* default of --indent-size
DefaultIndentSize == 2

(* ------------------------------ text ----------------------------------- *)
NL == "\n"
TAB == "\t"
SPACE == " "
\* the character U+0060, which a TLA+ string cannot hold
BACKQUOTE == "bq"

Alphabet == {"(", ")", ";", NL, SPACE, "a", "'"}

RECURSIVE Texts(_)
Texts(n) ==
  IF n = 0 THEN {<<>>}
  ELSE LET shorter == Texts(n - 1)
       IN shorter \cup {Append(s, c) : s \in {t \in shorter : Len(t) = n - 1}, c \in Alphabet}

Sources ==
  Texts(MaxTop) \cup {<<"(">> \o s \o <<")">> : s \in Texts(MaxBody)}

RECURSIVE Repeat(_, _)
Repeat(s, n) == IF n <= 0 THEN <<>> ELSE s \o Repeat(s, n - 1)

\* line 195: --indent-with tabs, or spaces of the default size
IndentSeqs == {<<TAB>>, Repeat(<<SPACE>>, DefaultIndentSize)}

RECURSIVE Join(_)
Join(frags) == IF frags = <<>> THEN <<>> ELSE Head(frags) \o Join(Tail(frags))

Slice(s, a, b) == SubSeq(s, a + 1, IF b < Len(s) THEN b ELSE Len(s))

RECURSIVE Count(_, _)
Count(s, c) ==
  IF s = <<>> THEN 0 ELSE (IF Head(s) = c THEN 1 ELSE 0) + Count(Tail(s), c)

Contains(s, c) == \E i \in 1..Len(s) : s[i] = c

isspace(s) == s # <<>> /\ \A i \in 1..Len(s) : s[i] \in {SPACE, NL, TAB}

(* ------------------------------ lexer ---------------------------------- *)
SExpr_BEGIN == <<"(">>
QuotedSExpr_BEGIN == <<"'", "(">>
QuasiQuotedSExpr_BEGIN == <<BACKQUOTE, "(">>
UnquotedSExpr_BEGIN == <<",", "(">>
SExpr_END == <<")">>
Comment_BEGIN == <<";">>
Comment_END == <<NL>>

BEGINS == <<SExpr_BEGIN, QuotedSExpr_BEGIN, QuasiQuotedSExpr_BEGIN, UnquotedSExpr_BEGIN>>

DELIMETERS == BEGINS \o <<SExpr_END, Comment_BEGIN, Comment_END>>

cursor(p, length) == Slice(code, p, p + length)

AtDelimeter(p) == \E i \in 1..Len(DELIMETERS) : cursor(p, Len(DELIMETERS[i])) = DELIMETERS[i]

\* take_until with the three predicates the source passes to it; each
\* returns the cursor position at which the scan stops.
RECURSIVE take_whitespace(_)
take_whitespace(p) ==
  IF cursor(p, 1) = <<>> \/ ~isspace(cursor(p, 1)) THEN p ELSE take_whitespace(p + 1)

RECURSIVE take_atom(_)
take_atom(p) ==
  IF cursor(p, 1) = <<>> \/ isspace(cursor(p, 1)) \/ AtDelimeter(p) THEN p
  ELSE take_atom(p + 1)

RECURSIVE take_comment_text(_)
take_comment_text(p) ==
  IF cursor(p, 1) = <<>> \/ cursor(p, 1) = Comment_END THEN p ELSE take_comment_text(p + 1)

\* take(t): the position after t when the cursor is at t, else unchanged
take(p, t) == IF cursor(p, Len(t)) = t THEN p + Len(t) ELSE p

\* take_token: the first delimiter of DELIMETERS found at the cursor, else
\* the run of characters up to white space or a delimiter
take_token(p) ==
  IF AtDelimeter(p)
  THEN LET i == CHOOSE i \in 1..Len(DELIMETERS) :
                  /\ cursor(p, Len(DELIMETERS[i])) = DELIMETERS[i]
                  /\ \A j \in 1..(i - 1) : cursor(p, Len(DELIMETERS[j])) # DELIMETERS[j]
       IN [t |-> DELIMETERS[i], pos |-> p + Len(DELIMETERS[i])]
  ELSE [t |-> Slice(code, p, take_atom(p)), pos |-> take_atom(p)]

(* ------------------------------ tree ----------------------------------- *)
\* TaggedExpr: cls is "str" for an atom, "Comment", or "SExpr" for a list
\* (BEGIN tells the four list classes apart).
TaggedExpr(cls, begin, text, items, start, end) ==
  [cls |-> cls, BEGIN |-> begin, text |-> text, items |-> items,
   start_pos |-> start, end_pos |-> end]

Atom(t, start, end) == TaggedExpr("str", <<>>, t, <<>>, start, end)
Comment(text, start, end) == TaggedExpr("Comment", Comment_BEGIN, text, <<>>, start, end)
SExpr(begin, items, start, end) == TaggedExpr("SExpr", begin, <<>>, items, start, end)

(* ------------------------------ parser --------------------------------- *)
start_pos == take_whitespace(pos)
tok == take_token(start_pos)

\* hand a finished node to the caller of parse_expr: the innermost running
\* list loop appends it (line 133), or parse() yields it (line 141)
Return(node, stk) ==
  IF stk = <<>>
  THEN /\ forms' = Append(forms, node)
       /\ stack' = stk
  ELSE /\ stack' = [stk EXCEPT ![Len(stk)].items = Append(@, node)]
       /\ forms' = forms

Init ==
  /\ file \in Sources
  /\ code = file
  /\ indent_seq \in IndentSeqs
  /\ pos = 0
  /\ stack = <<>>
  /\ forms = <<>>
  /\ spin = 0
  /\ pc = "parse"
  /\ result = <<>>
  /\ formatted = FALSE
  /\ prev_shape = <<>>

\* lines 117-120: the token opens a list; its loop (129-133) starts
OpenList ==
  /\ pc = "parse"
  /\ \E i \in 1..Len(BEGINS) : tok.t = BEGINS[i]
  /\ stack' = Append(stack, [BEGIN |-> tok.t, start_pos |-> start_pos, items |-> <<>>])
  /\ pos' = tok.pos
  /\ UNCHANGED <<file, code, indent_seq, forms, spin, pc, result, formatted, prev_shape>>

\* lines 122-125: a comment runs to the line end and takes it
ParseComment ==
  /\ pc = "parse"
  /\ tok.t = Comment_BEGIN
  /\ LET e == take_comment_text(tok.pos)
         p == take(e, Comment_END)
     IN /\ pos' = p
        /\ Return(Comment(Slice(code, tok.pos, e), start_pos, p), stack)
  /\ UNCHANGED <<file, code, indent_seq, spin, pc, result, formatted, prev_shape>>

\* line 127 returns the token ")" to a running list loop, which breaks on
\* it (131), passes the check of 135 and returns the list (138)
CloseList ==
  /\ pc = "parse"
  /\ tok.t = SExpr_END
  /\ stack # <<>>
  /\ LET top == stack[Len(stack)]
     IN /\ pos' = tok.pos
        /\ Return(SExpr(top.BEGIN, top.items, top.start_pos, tok.pos),
                  SubSeq(stack, 1, Len(stack) - 1))
  /\ UNCHANGED <<file, code, indent_seq, spin, pc, result, formatted, prev_shape>>

IsAtomToken ==
  /\ \A i \in 1..Len(BEGINS) : tok.t # BEGINS[i]
  /\ tok.t # Comment_BEGIN

\* line 127: any other token is returned as an atom, and the caller keeps
\* it: a list loop whenever it is not ")" (131-133), parse() whenever it is
\* not "" (141)
ParseAtom ==
  /\ pc = "parse"
  /\ IsAtomToken
  /\ tok.t # <<>>
  /\ stack # <<>> => tok.t # SExpr_END
  /\ pos' = tok.pos
  /\ Return(Atom(tok.t, start_pos, tok.pos), stack)
  /\ UNCHANGED <<file, code, indent_seq, spin, pc, result, formatted, prev_shape>>

\* line 127 at end of input inside a list: the token is "", which is
\* neither None nor ")" (131), so the loop appends it and calls parse_expr
\* again, without end; the raise of line 136 is never reached.  spin
\* counts the iterations the model follows.
ParseEofInList ==
  /\ pc = "parse"
  /\ tok.t = <<>>
  /\ stack # <<>>
  /\ spin < MaxSpin
  /\ spin' = spin + 1
  /\ pos' = tok.pos
  /\ Return(Atom(tok.t, start_pos, tok.pos), stack)
  /\ UNCHANGED <<file, code, indent_seq, pc, result, formatted, prev_shape>>

\* line 141: parse_expr returned "" to iter(), the sentinel: parse() ends
ParseEnd ==
  /\ pc = "parse"
  /\ tok.t = <<>>
  /\ stack = <<>>
  /\ pos' = tok.pos
  /\ pc' = "fmt"
  /\ UNCHANGED <<file, code, indent_seq, stack, forms, spin, result, formatted, prev_shape>>

(* ------------------------------ renderer ------------------------------- *)
\* text yielded between two children of a list (lines 163-167); last is
\* the last fragment yielded so far for the children
separator(prev, elem, indent, last) ==
  IF Contains(Slice(code, prev.end_pos, elem.start_pos), NL)
  THEN << <<NL>>, Repeat(indent_seq, indent + 1) >>
  ELSE IF ~isspace(last) THEN << <<SPACE>> >> ELSE <<>>

\* fmt_atom with the last character of the text lost
fmt_atom_truncated(expr) == <<SubSeq(expr.text, 1, Len(expr.text) - 1)>>

\* text yielded for an atom (line 145)
fmt_atom(expr) == <<expr.text>>

\* fmt_comment indenting one level short
fmt_comment_outdented(expr, indent) ==
  <<expr.BEGIN, expr.text, <<NL>>, Repeat(indent_seq, indent - 1)>>

\* text yielded for a comment (lines 148-153)
fmt_comment(expr, indent) ==
  <<expr.BEGIN, expr.text, <<NL>>, Repeat(indent_seq, indent)>>

RECURSIVE _fmt_expr(_, _)
RECURSIVE fmt_rest(_, _, _, _)

\* the fragments _fmt_expr yields for expr
_fmt_expr(expr, indent) ==
  IF expr.cls = "str" THEN fmt_atom(expr)
  ELSE IF expr.cls = "Comment" THEN fmt_comment(expr, indent)
  ELSE LET first == IF Len(expr.items) > 0
                    THEN _fmt_expr(expr.items[1], indent + 1) ELSE <<>>
           last == IF first = <<>> THEN <<>> ELSE first[Len(first)]
       IN <<expr.BEGIN>> \o first \o fmt_rest(expr.items, 2, indent, last)
            \o <<SExpr_END>>

\* the loop of lines 162-169 from the pair (items[i-1], items[i]) on
fmt_rest(items, i, indent, last) ==
  IF i > Len(items) THEN <<>>
  ELSE LET sub == _fmt_expr(items[i], indent + 1)
           last2 == IF sub = <<>> THEN last ELSE sub[Len(sub)]
       IN separator(items[i - 1], items[i], indent, last) \o sub
            \o fmt_rest(items, i + 1, indent, last2)

fmt_expr(expr) == Join(_fmt_expr(expr, 0))

\* blank_lines always breaking the line between two forms
blank_lines_one_more(prev_expr, next_expr) ==
  Repeat(<<NL>>, Count(Slice(code, prev_expr.end_pos, next_expr.start_pos), NL) + 1)

\* blank_lines as a fixed separator of one empty line
blank_lines_fixed(prev_expr, next_expr) == <<NL, NL>>

\* line terminators yielded between two top-level forms (line 180)
blank_lines(prev_expr, next_expr) ==
  Repeat(<<NL>>, Count(Slice(code, prev_expr.end_pos, next_expr.start_pos), NL))

\* the fragments fmt yields after its first one (lines 179-181)
RECURSIVE fmt_from(_)
fmt_from(i) ==
  IF i > Len(forms) THEN <<>>
  ELSE <<blank_lines(forms[i - 1], forms[i]), fmt_expr(forms[i])>> \o fmt_from(i + 1)

\* the fragments fmt yields; only evaluated with a form to start from
fmt == <<fmt_expr(forms[1])>> \o fmt_from(2)

(* ------------------------------ driver --------------------------------- *)
RECURSIVE Shape(_)
Shape(expr) ==
  [cls |-> expr.cls, BEGIN |-> expr.BEGIN,
   items |-> [i \in 1..Len(expr.items) |-> Shape(expr.items[i])]]

Shapes(exprs) == [i \in 1..Len(exprs) |-> Shape(exprs[i])]

\* line 202 for a unit with no form: next(exprs2) at line 178 raises
\* StopIteration inside the generator, which reaches "".join as a
\* RuntimeError; nothing is written
FormatEmpty ==
  /\ pc = "fmt"
  /\ forms = <<>>
  /\ pc' = "RuntimeError"
  /\ UNCHANGED <<file, code, indent_seq, pos, stack, forms, spin, result, formatted, prev_shape>>

\* lines 202-210: the result is the joined fragments and a line
\* terminator; the file is rewritten when the result differs from it
FormatFile ==
  /\ pc = "fmt"
  /\ forms # <<>>
  /\ result' = Join(fmt) \o <<NL>>
  /\ file' = IF code # result' THEN result' ELSE file
  /\ pc' = "done"
  /\ UNCHANGED <<code, indent_seq, pos, stack, forms, spin, formatted, prev_shape>>

\* the program is run again on the file it left, with the same options
Rerun ==
  /\ pc = "done"
  /\ code' = file
  /\ pos' = 0
  /\ forms' = <<>>
  /\ result' = <<>>
  /\ pc' = "parse"
  /\ formatted' = TRUE
  /\ prev_shape' = Shapes(forms)
  /\ UNCHANGED <<file, indent_seq, stack, spin>>

Next ==
  \/ OpenList
  \/ ParseComment
  \/ CloseList
  \/ ParseAtom
  \/ ParseEofInList
  \/ ParseEnd
  \/ FormatEmpty
  \/ FormatFile
  \/ Rerun

Spec == Init /\ [][Next]_vars

(* ------------------------------ properties ----------------------------- *)
Min(S) == CHOOSE x \in S : \A y \in S : x <= y

IsAtom(expr, t) == expr.cls = "str" /\ expr.text = t

\* no top-level form is a ")" that closes no list
WellNested == \A i \in 1..Len(forms) : ~IsAtom(forms[i], SExpr_END)

\* the comments of a forest with their nesting depth, in source order
RECURSIVE CommentsIn(_, _)
CommentsIn(exprs, depth) ==
  IF exprs = <<>> THEN <<>>
  ELSE LET e == Head(exprs)
       IN (IF e.cls = "Comment" THEN <<[text |-> e.text, depth |-> depth]>>
           ELSE IF e.cls = "SExpr" THEN CommentsIn(e.items, depth + 1)
           ELSE <<>>) \o CommentsIn(Tail(exprs), depth)

\* the atom texts of a forest, in source order
RECURSIVE AtomsIn(_)
AtomsIn(exprs) ==
  IF exprs = <<>> THEN <<>>
  ELSE LET e == Head(exprs)
       IN (IF e.cls = "str" THEN <<e.text>>
           ELSE IF e.cls = "SExpr" THEN AtomsIn(e.items)
           ELSE <<>>) \o AtomsIn(Tail(exprs))

\* the list nodes of a forest with their nesting depth
RECURSIVE ListsIn(_, _)
ListsIn(exprs, depth) ==
  IF exprs = <<>> THEN {}
  ELSE LET e == Head(exprs)
       IN (IF e.cls = "SExpr"
           THEN {[list |-> e, depth |-> depth]} \cup ListsIn(e.items, depth + 1)
           ELSE {}) \cup ListsIn(Tail(exprs), depth)

\* offsets at or after from where t occurs in out
Occurrences(out, from, t) ==
  {i \in from..(Len(out) - Len(t)) : Slice(out, i, i + Len(t)) = t}

\* C1: formatting is idempotent: when the program is run on a file that an
\* earlier run formatted (a source with nested delimiters and at least one
\* form), the result equals the text read and the file is left as it is.
C1_Idempotent ==
  (pc = "done" /\ formatted /\ WellNested) => (result = code /\ file = code)

C1_Witness ==
  /\ pc = "done" /\ formatted /\ WellNested
  /\ \E l \in ListsIn(forms, 0) :
       /\ Len(l.list.items) >= 2
       /\ Contains(Slice(code, l.list.start_pos, l.list.end_pos), NL)

\* C2: when the input is exhausted inside an open list, parse_expr raises
\* the parse error instead of returning a node.
C2_UnterminatedListError ==
  [][(pc = "parse" /\ stack # <<>> /\ tok.t = <<>>)
       => (pc' = "ValueError" /\ stack' = stack /\ forms' = forms)]_vars

\* C3: between two consecutive children of a list rendered at depth d the
\* renderer emits nothing when the rendering of the previous child ends in
\* white space, otherwise a line terminator and d+1 indent units when the
\* source between them holds a line terminator, otherwise one space.
EndsInSpace(text) == text # <<>> /\ isspace(<<text[Len(text)]>>)

C3_Separator(prev, elem, d) ==
  IF EndsInSpace(Join(_fmt_expr(prev, d + 1))) THEN <<>>
  ELSE IF \E i \in (prev.end_pos + 1)..elem.start_pos : code[i] = NL
       THEN <<NL>> \o Repeat(indent_seq, d + 1)
       ELSE <<SPACE>>

RECURSIVE C3_Children(_, _, _)
C3_Children(items, i, d) ==
  IF i > Len(items) THEN <<>>
  ELSE (IF i = 1 THEN <<>> ELSE C3_Separator(items[i - 1], items[i], d))
         \o Join(_fmt_expr(items[i], d + 1)) \o C3_Children(items, i + 1, d)

C3_SiblingSeparator ==
  pc = "done" =>
    \A l \in ListsIn(forms, 0) :
      Join(_fmt_expr(l.list, l.depth))
        = l.list.BEGIN \o C3_Children(l.list.items, 1, l.depth) \o SExpr_END

\* C4: every comment at nesting depth d appears in the result as ";", its
\* text, a line terminator and d indent units, in source order.
RECURSIVE C4_Scan(_, _, _)
C4_Scan(out, from, comments) ==
  IF comments = <<>> THEN TRUE
  ELSE LET c == Head(comments)
           at == Occurrences(out, from, Comment_BEGIN)
           expected == Comment_BEGIN \o c.text \o <<NL>> \o Repeat(indent_seq, c.depth)
       IN /\ at # {}
          /\ Slice(out, Min(at), Min(at) + Len(expected)) = expected
          /\ C4_Scan(out, Min(at) + Len(c.text) + 2, Tail(comments))

C4_CommentForcesBreak ==
  pc = "done" => C4_Scan(result, 0, CommentsIn(forms, 0))

C4_Witness ==
  /\ pc = "done"
  /\ \E i \in 1..Len(CommentsIn(forms, 0)) :
       /\ CommentsIn(forms, 0)[i].depth >= 1
       /\ CommentsIn(forms, 0)[i].text # <<>>

\* C5: between the renderings of two consecutive top-level forms the
\* result holds as many line terminators as the source between the forms,
\* and nothing else.
C5_Gap(i) ==
  Cardinality({j \in (forms[i].end_pos + 1)..forms[i + 1].start_pos : code[j] = NL})

RECURSIVE C5_Expected(_)
C5_Expected(i) ==
  fmt_expr(forms[i])
    \o (IF i = Len(forms) THEN <<NL>>
        ELSE [j \in 1..C5_Gap(i) |-> NL] \o C5_Expected(i + 1))

C5_BlankLineCount ==
  pc = "done" => result = C5_Expected(1)

C5_Witness ==
  /\ pc = "done"
  /\ Len(forms) >= 2
  /\ C5_Gap(1) >= 1

\* C6: for a well-formed source, the forms parsed from the rendered text
\* have the shape of the forms it was rendered from.
C6_RoundTrip ==
  (formatted /\ pc = "fmt" /\ WellNested) => Shapes(forms) = prev_shape

\* C7: a ")" that closes no list is never returned as a form.
C7_StrayClose ==
  \A i \in 1..Len(forms) : ~IsAtom(forms[i], SExpr_END)

\* C8: format completes or raises the parse error; on a source with no
\* form it completes with a result of one line terminator.
C8_Total ==
  /\ pc \in {"parse", "fmt", "done", "ValueError"}
  /\ (pc \notin {"parse", "fmt"} /\ forms = <<>>) => (pc = "done" /\ result = <<NL>>)

\* C9: the atom texts of the parsed forms occur in the result unchanged,
\* one after the other in source order.
RECURSIVE C9_Scan(_, _, _)
C9_Scan(out, from, texts) ==
  IF texts = <<>> THEN TRUE
  ELSE LET at == Occurrences(out, from, Head(texts))
       IN /\ at # {}
          /\ C9_Scan(out, Min(at) + Len(Head(texts)), Tail(texts))

C9_AtomPreservation ==
  pc = "done" => C9_Scan(result, 0, AtomsIn(forms))

C9_Witness ==
  /\ pc = "done" /\ WellNested
  /\ Len(AtomsIn(forms)) >= 2
  /\ \E i \in 1..Len(AtomsIn(forms)) : Len(AtomsIn(forms)[i]) >= 2

\* C10: in every list, open or closed, the spans of the children do not
\* overlap and start at strictly increasing offsets, and the span of the
\* list strictly contains them.
SpansOrdered(items) ==
  \A i \in 1..(Len(items) - 1) :
    /\ items[i].end_pos <= items[i + 1].start_pos
    /\ items[i].start_pos < items[i + 1].start_pos

C10_SpanOrder ==
  /\ \A k \in 1..Len(stack) :
       /\ SpansOrdered(stack[k].items)
       /\ \A i \in 1..Len(stack[k].items) :
            stack[k].start_pos < stack[k].items[i].start_pos
  /\ \A l \in ListsIn(forms, 0) :
       /\ SpansOrdered(l.list.items)
       /\ \A i \in 1..Len(l.list.items) :
            /\ l.list.start_pos < l.list.items[i].start_pos
            /\ l.list.items[i].end_pos < l.list.end_pos
====
